---------------------------- MODULE Spec2Model ----------------------------
(*************************************************************************)
(* Model of check_oath_tickets.py: repeated runs of main() that share    *)
(* one known_tickets.json.  A run loads the known ticket numbers,        *)
(* fetches the records of every configured address, computes the new     *)
(* ticket numbers, and, only when there are some, calls send_email and   *)
(* then rewrites the state file.                                         *)
(*************************************************************************)
EXTENDS Integers, Sequences, FiniteSets, TLC

(* ------------------------------ bounds ------------------------------ *)
NumIds == 2      \* distinct ticket numbers the dataset can return
MaxRecs == 3     \* records the dataset returns in one run, all addresses

(* --------------------------- value domains --------------------------- *)
\* Ticket numbers, listed in the order sorted() gives them.
TicketNames == <<"T1", "T2", "T3", "T4">>
Ids == {TicketNames[i] : i \in 1..NumIds}
Rank(t) == CHOOSE i \in 1..Len(TicketNames) : TicketNames[i] = t

\* record.get("ticket_number") of a record without that key is None.
NoValue == "<None>"
IdVals == Ids \cup {"", NoValue}
\* Python truthiness of an optional string: None and "" are false.
Truthy(v) == v \notin {"", NoValue}

\* The two addresses parse_addresses() yields for
\* TICKET_ADDRESSES = "1407 Overing Street;22 Elm Avenue".
parse_addresses == <<"1407 OVERING STREET", "22 ELM AVENUE">>
NumAddrs == Len(parse_addresses)

\* What fetch_tickets does for one address: it raises, or it returns the
\* decoded JSON array.
RawRecords == [ticket_number : IdVals]
RecordSeqs == UNION {[1..n -> RawRecords] : n \in 0..MaxRecs}
FetchRaises == [ok |-> FALSE, records |-> <<>>]
FetchResults == {FetchRaises} \cup {[ok |-> TRUE, records |-> s] : s \in RecordSeqs}

\* Contents of known_tickets.json.  An array or object carries its
\* elements (keys) in file order; NumItem is a JSON number element and
\* ListItem a nested array element, neither equal to any string.
NumItem == "<7>"
ListItem == "<[]>"
FileAbsent == [kind |-> "absent", items |-> <<>>]
FileGarbage == [kind |-> "garbage", items |-> <<>>]
FileBadBytes == [kind |-> "bytes", items |-> <<>>]
FileNumber == [kind |-> "number", items |-> <<>>]
FileObject(keys) == [kind |-> "object", items |-> keys]
FileArray(items) == [kind |-> "array", items |-> items]
InitialFiles ==
    {FileAbsent, FileGarbage, FileBadBytes, FileNumber,
     FileObject(<<"T1">>),
     FileArray(<<>>), FileArray(<<"T1">>), FileArray(<<"T2", "T1", "T2">>),
     FileArray(<<"T1", NumItem>>), FileArray(<<"T1", ListItem>>)}

\* os.environ as send_email sees it: a variable is unset, empty, or set;
\* "587" is the one value int() accepts.
SmtpVars == <<"SMTP_SERVER", "SMTP_PORT", "SMTP_USERNAME", "SMTP_PASSWORD",
              "FROM_EMAIL", "TO_EMAIL">>
SmtpNames == {SmtpVars[i] : i \in 1..Len(SmtpVars)}
EnvVals == {NoValue, "", "587", "mail"}
Environments == [SmtpNames -> EnvVals]
EnvAllSet == [n \in SmtpNames |-> IF n = "SMTP_PORT" THEN "587" ELSE "mail"]
EnvNoneSet == [n \in SmtpNames |-> NoValue]
RunEnvironments == {EnvAllSet, EnvNoneSet}
\* What the SMTP server does once send_email talks to it.
TransportOutcomes == {"ok", "connect_error", "smtp_error"}

(* ------------------------------ state -------------------------------- *)
VARIABLES
    known_file,             \* contents of known_tickets.json
    environ,                \* the SMTP_* / *_EMAIL environment variables
    pc,                     \* position of the current run of main()
    known_tickets,          \* main: known_tickets
    current_records,        \* main: current_records
    addr_idx,               \* main: index of the address the loop is at
    current_ticket_numbers, \* main: current_ticket_numbers
    new_ticket_numbers,     \* main: new_ticket_numbers
    new_records,            \* main: new_records, the argument of send_email
    mail_status,            \* what send_email did: none, missing, sent, failed
    smtp_connections,       \* smtplib.SMTP(...) calls of this run
    events,                 \* effects of this run, in order
    fetch_results,          \* what fetch_tickets did per address, this run
    replay,                 \* fetch outcomes a re-run repeats, or <<>>
    file_at_start,          \* known_file when this run started
    notified                \* ticket numbers of earlier non-empty deltas

vars == <<known_file, environ, pc, known_tickets, current_records, addr_idx,
          current_ticket_numbers, new_ticket_numbers, new_records,
          mail_status, smtp_connections, events, fetch_results, replay,
          file_at_start, notified>>

(* ------------------------- pure functions ---------------------------- *)
Range(s) == {s[i] : i \in 1..Len(s)}

\* A load that forgets what an array holds.
load_known_tickets_Forget(file) == [raised |-> FALSE, value |-> {}]

\* load_known_tickets: the set it returns, or that it raises.
load_known_tickets(file) ==
    CASE file.kind = "absent"  -> [raised |-> FALSE, value |-> {}]
      [] file.kind = "garbage" -> [raised |-> FALSE, value |-> {}]
      [] file.kind = "bytes"   -> [raised |-> TRUE, value |-> {}]
      [] file.kind = "number"  -> [raised |-> TRUE, value |-> {}]
      [] file.kind = "object"  -> [raised |-> FALSE, value |-> Range(file.items)]
      [] file.kind = "array"   ->
            IF ListItem \in Range(file.items)
            THEN [raised |-> TRUE, value |-> {}]
            ELSE [raised |-> FALSE, value |-> Range(file.items)]

\* sorted(tickets) for a set of ticket numbers.
RECURSIVE sorted(_)
sorted(S) ==
    IF S = {} THEN <<>>
    ELSE LET m == CHOOSE x \in S : \A y \in S : Rank(x) <= Rank(y)
         IN <<m>> \o sorted(S \ {m})

\* save_known_tickets: the file it leaves behind.
save_known_tickets(tickets) == FileArray(sorted(tickets))

\* rec["_address"] = f"{house} {street}" for every record of one fetch.
Annotate(records, addr) ==
    [i \in 1..Len(records) |->
        [ticket_number |-> records[i].ticket_number, _address |-> addr]]

\* {record.get("ticket_number") for record in ... if record.get(...)}
TicketNumbers(records) ==
    {records[i].ticket_number : i \in {j \in 1..Len(records) :
                                        Truthy(records[j].ticket_number)}}

\* A delta that does not subtract the known ticket numbers.
NewTicketNumbers_All(current, known) == current

\* current_ticket_numbers - known_tickets
NewTicketNumbers(current, known) == current \ known

\* [record for record in current_records if ... in new_ticket_numbers]
NewRecords(records, new) ==
    LET IsNew(r) == r.ticket_number \in new IN SelectSeq(records, IsNew)

\* A check that takes an empty variable for a set one.
Missing_OnlyUnset(env) ==
    LET Unset(n) == env[n] = NoValue IN SelectSeq(SmtpVars, Unset)

\* send_email's list of missing variables.
Missing(env) ==
    LET Unset(n) == ~Truthy(env[n]) IN SelectSeq(SmtpVars, Unset)

\* int(smtp_port) succeeds.
IsInt(v) == v = "587"

\* send_email: its outcome for an environment and a server behaviour.
\* Composing the message (lines 216-238) reads string fields of the
\* records and does not raise for the Dict[str, str] records fetch_tickets
\* is declared to return; int(smtp_port) and every SMTP call are inside
\* the try block, so their exceptions end in the "failed" outcome.
send_email(env, transport) ==
    IF Missing(env) # <<>>
    THEN [status |-> "missing", connections |-> 0, raised |-> FALSE]
    ELSE IF ~IsInt(env["SMTP_PORT"])
    THEN [status |-> "failed", connections |-> 0, raised |-> FALSE]
    ELSE IF transport = "ok"
    THEN [status |-> "sent", connections |-> 1, raised |-> FALSE]
    ELSE [status |-> "failed", connections |-> 1, raised |-> FALSE]

(* --------------------------- control flow ---------------------------- *)
\* Where main() is after load_known_tickets returned or raised.
AfterLoad(raised) == IF raised THEN "crashed" ELSE "fetch"

\* A loop in which a failed fetch ends the run instead of "continue".
AfterFetch_Abort(ok, idx) ==
    IF ~ok THEN "crashed" ELSE IF idx = NumAddrs THEN "diff" ELSE "fetch"

\* Where main() is after one iteration of the address loop: the except
\* clause continues with the next address, so the outcome does not matter.
AfterFetch(ok, idx) == IF idx = NumAddrs THEN "diff" ELSE "fetch"

\* A branch that notifies and persists on every run.
AfterDelta_Always(new) == "send"

\* A branch that persists without calling send_email.
AfterDelta_SaveOnly(new) == IF new # {} THEN "save" ELSE "done"

\* "if new_ticket_numbers:" ... "else: print(No new tickets found.)"
AfterDelta(new) == IF new # {} THEN "send" ELSE "done"

\* Where main() is after send_email returned or raised.
AfterSend(raised) == IF raised THEN "crashed" ELSE "save"

\* A save that persists only the new ticket numbers.
SavedTickets_OnlyNew(current, new) == new

\* The argument main() passes to save_known_tickets.
SavedTickets(current, new) == current

(* ------------------------------ actions ------------------------------ *)
Transient ==
    /\ known_tickets' = {}
    /\ current_records' = <<>>
    /\ addr_idx' = 0
    /\ current_ticket_numbers' = {}
    /\ new_ticket_numbers' = {}
    /\ new_records' = <<>>
    /\ mail_status' = "none"
    /\ smtp_connections' = 0
    /\ events' = <<>>
    /\ fetch_results' = <<>>

InitCommon ==
    /\ known_file \in InitialFiles
    /\ pc = "idle"
    /\ known_tickets = {}
    /\ current_records = <<>>
    /\ addr_idx = 0
    /\ current_ticket_numbers = {}
    /\ new_ticket_numbers = {}
    /\ new_records = <<>>
    /\ mail_status = "none"
    /\ smtp_connections = 0
    /\ events = <<>>
    /\ fetch_results = <<>>
    /\ replay = <<>>
    /\ file_at_start = known_file
    /\ notified = {}

Init ==
    /\ InitCommon
    /\ environ \in RunEnvironments

\* The scheduler starts the script.
StartRun ==
    /\ pc = "idle"
    /\ pc' = "load"
    /\ file_at_start' = known_file
    /\ UNCHANGED <<known_file, environ, known_tickets, current_records,
                   addr_idx, current_ticket_numbers, new_ticket_numbers,
                   new_records, mail_status, smtp_connections, events,
                   fetch_results, replay, notified>>

\* known_tickets = load_known_tickets(known_file)
LoadKnown ==
    /\ pc = "load"
    /\ LET r == load_known_tickets(known_file) IN
        /\ known_tickets' = r.value
        /\ pc' = AfterLoad(r.raised)
        /\ addr_idx' = IF r.raised THEN addr_idx ELSE 1
    /\ events' = Append(events, "read")
    /\ UNCHANGED <<known_file, environ, current_records,
                   current_ticket_numbers, new_ticket_numbers, new_records,
                   mail_status, smtp_connections, fetch_results, replay,
                   file_at_start, notified>>

\* One iteration of "for addr in addresses".
FetchAddress ==
    /\ pc = "fetch"
    /\ \E res \in FetchResults :
        /\ replay # <<>> => res = replay[addr_idx]
        /\ Len(current_records) + Len(res.records) <= MaxRecs
        /\ fetch_results' = Append(fetch_results, res)
        /\ pc' = AfterFetch(res.ok, addr_idx)
        /\ current_records' =
              IF res.ok
              THEN current_records \o Annotate(res.records, parse_addresses[addr_idx])
              ELSE current_records
    /\ events' = Append(events, "fetch")
    /\ addr_idx' = addr_idx + 1
    /\ UNCHANGED <<known_file, environ, known_tickets,
                   current_ticket_numbers, new_ticket_numbers, new_records,
                   mail_status, smtp_connections, replay, file_at_start,
                   notified>>

\* current_ticket_numbers, new_ticket_numbers and the branch on them.
ComputeDelta ==
    /\ pc = "diff"
    /\ LET cur == TicketNumbers(current_records)
           new == NewTicketNumbers(cur, known_tickets)
       IN /\ current_ticket_numbers' = cur
          /\ new_ticket_numbers' = new
          /\ new_records' = IF new # {} THEN NewRecords(current_records, new)
                            ELSE <<>>
          /\ pc' = AfterDelta(new)
    /\ UNCHANGED <<known_file, environ, known_tickets, current_records,
                   addr_idx, mail_status, smtp_connections, events,
                   fetch_results, replay, file_at_start, notified>>

\* send_email(new_records)
SendEmail ==
    /\ pc = "send"
    /\ \E transport \in TransportOutcomes :
        LET r == send_email(environ, transport) IN
        /\ mail_status' = r.status
        /\ smtp_connections' = smtp_connections + r.connections
        /\ pc' = AfterSend(r.raised)
    /\ events' = Append(events, "send")
    /\ UNCHANGED <<known_file, environ, known_tickets, current_records,
                   addr_idx, current_ticket_numbers, new_ticket_numbers,
                   new_records, fetch_results, replay, file_at_start,
                   notified>>

\* save_known_tickets(known_file, current_ticket_numbers)
SaveKnown ==
    /\ pc = "save"
    /\ known_file' = save_known_tickets(
                        SavedTickets(current_ticket_numbers, new_ticket_numbers))
    /\ events' = Append(events, "write")
    /\ notified' = notified \cup new_ticket_numbers
    /\ pc' = "done"
    /\ UNCHANGED <<environ, known_tickets, current_records, addr_idx,
                   current_ticket_numbers, new_ticket_numbers, new_records,
                   mail_status, smtp_connections, fetch_results, replay,
                   file_at_start>>

\* The process ends; only the file survives.
ExitRun ==
    /\ pc \in {"done", "crashed"}
    /\ pc' = "idle"
    /\ Transient
    /\ replay' = <<>>
    /\ UNCHANGED <<known_file, environ, file_at_start, notified>>

Next ==
    \/ StartRun
    \/ LoadKnown
    \/ FetchAddress
    \/ ComputeDelta
    \/ SendEmail
    \/ SaveKnown
    \/ ExitRun

Spec == Init /\ [][Next]_vars

(* ---------------- re-runs with identical fetched data ---------------- *)
\* The process ends and the next run will be given the same answers by
\* the dataset.
ExitForRerun ==
    /\ pc \in {"done", "crashed"}
    /\ pc' = "idle"
    /\ Transient
    /\ replay' = IF Len(fetch_results) = NumAddrs THEN fetch_results ELSE replay
    /\ UNCHANGED <<known_file, environ, file_at_start, notified>>

NextRerun ==
    \/ StartRun
    \/ LoadKnown
    \/ FetchAddress
    \/ ComputeDelta
    \/ SendEmail
    \/ SaveKnown
    \/ ExitForRerun

SpecRerun == Init /\ [][NextRerun]_vars

(* ------------- send_email under every SMTP environment --------------- *)
\* A first run that found one new ticket at the first address and is
\* about to call send_email, under any setting of the six variables.
InitNotifier ==
    /\ environ \in Environments
    /\ known_file = FileAbsent
    /\ file_at_start = FileAbsent
    /\ pc = "send"
    /\ known_tickets = {}
    /\ fetch_results =
          [i \in 1..NumAddrs |->
              [ok |-> TRUE,
               records |-> IF i = 1 THEN <<[ticket_number |-> "T1"]>> ELSE <<>>]]
    /\ current_records =
          <<[ticket_number |-> "T1", _address |-> parse_addresses[1]]>>
    /\ addr_idx = NumAddrs + 1
    /\ current_ticket_numbers = {"T1"}
    /\ new_ticket_numbers = {"T1"}
    /\ new_records = current_records
    /\ mail_status = "none"
    /\ smtp_connections = 0
    /\ events = <<"read">> \o [i \in 1..NumAddrs |-> "fetch"]
    /\ replay = <<>>
    /\ notified = {}

NextNotifier ==
    \/ SendEmail
    \/ SaveKnown

SpecNotifier == InitNotifier /\ [][NextNotifier]_vars


(* ----------------------------- properties ---------------------------- *)
\* The distinct non-empty identifiers of the aggregated fetch.
CurrentIds ==
    {r.ticket_number : r \in Range(current_records)} \ {"", NoValue}

\* Delta: identifiers fetched now and absent from the loaded known set.
Delta == CurrentIds \ known_tickets

\* The records of the first n addresses, in configuration order, each
\* address's records in fetched order and carrying its address; an address
\* whose fetch raised contributes nothing.
RECURSIVE ExpectedAggregate(_)
ExpectedAggregate(n) ==
    IF n = 0 THEN <<>>
    ELSE ExpectedAggregate(n - 1) \o
         (IF fetch_results[n].ok
          THEN [i \in 1..Len(fetch_results[n].records) |->
                   [ticket_number |-> fetch_results[n].records[i].ticket_number,
                    _address |-> parse_addresses[n]]]
          ELSE <<>>)

Positions(e) == {i \in 1..Len(events) : events[i] = e}

WellFormedFile(f) == f.kind = "array" /\ Range(f.items) \subseteq Ids

Configured(env) == \A n \in SmtpNames : env[n] \notin {NoValue, ""}

\* C1: a ticket number that was in the non-empty Delta of an earlier run
\* is never in the Delta handed to send_email by a later run.
C1_AtMostOnce ==
    pc = "send" => new_ticket_numbers \cap notified = {}

\* C2: a run that started without a state file and fetched at least one
\* identifier ends with the file holding exactly the fetched identifiers
\* and without having called send_email.
C2_FirstRunSeedsSilently ==
    (pc = "done" /\ file_at_start = FileAbsent /\ CurrentIds # {})
        => /\ known_file.kind = "array"
           /\ Range(known_file.items) = CurrentIds
           /\ "send" \notin Range(events)
           /\ mail_status = "none"

\* C3: a run whose Delta is non-empty ends normally with the state file
\* holding exactly the full current identifier set, each identifier once,
\* whatever send_email did.
C3_FullSetPersisted ==
    (pc \in {"done", "crashed"} /\ Delta # {})
        => /\ pc = "done"
           /\ mail_status \in {"sent", "missing", "failed"}
           /\ known_file.kind = "array"
           /\ Range(known_file.items) = CurrentIds
           /\ Len(known_file.items) = Cardinality(CurrentIds)

\* A run ended after a transport exception, with a known identifier that
\* was not fetched again.
C3_Witness ==
    /\ pc = "done"
    /\ Delta # {}
    /\ mail_status = "failed"
    /\ smtp_connections = 1
    /\ known_tickets \ CurrentIds # {}

\* C4: a run whose Delta is empty ends without a notification and without
\* a write: the state file is as it was when the run started.
C4_EmptyDeltaNoEffects ==
    (pc = "done" /\ Delta = {})
        => /\ known_file = file_at_start
           /\ mail_status = "none"
           /\ smtp_connections = 0
           /\ "send" \notin Range(events)
           /\ "write" \notin Range(events)

\* Every address fetch failed and the state file is not JSON.
C4_Witness ==
    /\ pc = "done"
    /\ fetch_results = [i \in 1..NumAddrs |-> FetchRaises]
    /\ known_file = FileGarbage

\* C5: a fetch that raises never ends the run; every address is fetched,
\* a failing address contributes no records, and the records of the other
\* addresses are aggregated and diffed as without the failure.
C5_FetchFailureTolerated ==
    /\ pc = "crashed" => fetch_results = <<>>
    /\ pc = "fetch"
          => /\ addr_idx = Len(fetch_results) + 1
             /\ current_records = ExpectedAggregate(Len(fetch_results))
    /\ pc \in {"diff", "send", "save", "done"}
          => /\ Len(fetch_results) = NumAddrs
             /\ Cardinality(Positions("fetch")) = NumAddrs
             /\ current_records = ExpectedAggregate(NumAddrs)
    /\ pc \in {"send", "save", "done"}
          => /\ current_ticket_numbers = CurrentIds
             /\ new_ticket_numbers = Delta

\* The first address failed, the second one's records were notified and
\* persisted.
C5_Witness ==
    /\ pc = "done"
    /\ ~fetch_results[1].ok
    /\ fetch_results[2].ok
    /\ new_records # <<>>
    /\ "write" \in Range(events)

\* C6: the records handed to send_email are exactly the aggregated records
\* whose identifier is in Delta, in aggregated order; none has a missing,
\* empty or known identifier.
C6_EmailedRecords ==
    pc \in {"send", "save"}
        => /\ LET InDelta(r) == r.ticket_number \in Delta
              IN new_records = SelectSeq(ExpectedAggregate(NumAddrs), InDelta)
           /\ \A i \in 1..Len(new_records) :
                 /\ new_records[i].ticket_number \in Ids
                 /\ new_records[i].ticket_number \notin known_tickets

\* Two new records of different addresses and a record without identifier.
C6_Witness ==
    /\ pc = "save"
    /\ Len(current_records) = 3
    /\ Len(new_records) = 2
    /\ new_records[1]._address # new_records[2]._address
    /\ new_records[1].ticket_number # new_records[2].ticket_number
    /\ \E i \in 1..3 : current_records[i].ticket_number = NoValue

\* C7: load_known_tickets never raises, and returns the empty set for
\* every state file that is not a JSON array of strings.
C7_LoadNeverRaises ==
    /\ pc # "crashed"
    /\ (pc = "fetch" /\ ~WellFormedFile(known_file)) => known_tickets = {}

C9_SmtpOnlyWhenConfigured ==
    /\ smtp_connections > 0 => Configured(environ)
    /\ (mail_status # "none" /\ ~Configured(environ))
          => (mail_status = "missing" /\ smtp_connections = 0)
    /\ "send" \in Range(events)
          => /\ pc \in {"save", "done"}
             /\ mail_status \in {"missing", "sent", "failed"}

\* TO_EMAIL is set but empty: send_email returned without connecting.
C9_Witness ==
    /\ pc = "save"
    /\ environ = [EnvAllSet EXCEPT !["TO_EMAIL"] = ""]
    /\ mail_status = "missing"
    /\ smtp_connections = 0

\* C10: in one run the state file is read once and before any fetch,
\* send_email is called at most once, and the file is written at most
\* once and only after send_email was called.
C10_EffectOrder ==
    /\ Cardinality(Positions("read")) <= 1
    /\ pc \notin {"idle", "load"}
          => (Cardinality(Positions("read")) = 1 /\ events[1] = "read")
    /\ \A i \in Positions("fetch") : \E j \in Positions("read") : j < i
    /\ Cardinality(Positions("send")) <= 1
    /\ Cardinality(Positions("write")) <= 1
    /\ \A i \in Positions("write") : \E j \in Positions("send") : j < i

\* A complete run: read, one fetch per address, send, write.
C10_Witness ==
    /\ pc = "done"
    /\ Len(events) = NumAddrs + 3
    /\ events[NumAddrs + 2] = "send"
    /\ events[NumAddrs + 3] = "write"

=============================================================================
